---------------------------- MODULE Spec2Model ----------------------------
(***************************************************************************)
(* A model of src/main.py, the risk register generator: load_assets,       *)
(* cvss_to_likelihood, parse_gvm_xml, build_risk_register, write_csv and   *)
(* main.                                                                   *)
(*                                                                         *)
(* Text is a sequence of one-character strings, so that str.strip, int()   *)
(* and float() are computed on the characters.  The empty sequence stands  *)
(* both for Python's "" and for None where the code only tests the value's *)
(* truthiness (ElementTree never yields "" as an element's text, and every *)
(* findtext result is consumed by `or`).                                   *)
(*                                                                         *)
(* A Python call that may raise returns a record [exc, val]: exc = "none"  *)
(* when it returns val, otherwise the name of the exception raised.        *)
(***************************************************************************)
EXTENDS Integers, Sequences, FiniteSets, TLC

VARIABLES
    pc,          \* the position of the run
    assetsFile,  \* assets.csv: [exists, rows], rows as csv.DictReader yields them
    xmlFile,     \* gvm_report.xml: [exists, root], root the parsed element tree
    assets,      \* the mapping load_assets returned (a function on a set of addresses)
    vulns,       \* the list parse_gvm_xml returned
    register,    \* the list build_risk_register returned
    output,      \* risk_register.csv: [written, rows]
    exitCode,    \* the process exit status, -1 while running
    diag,        \* the messages printed so far
    calls,       \* the functions main has called so far, in order
    cvssArg,     \* the argument of a direct cvss_to_likelihood call
    cvssRet      \* what that call returned

vars == <<pc, assetsFile, xmlFile, assets, vulns, register, output, exitCode,
          diag, calls, cvssArg, cvssRet>>

-----------------------------------------------------------------------------
(* Bounds of the model *)

MaxCvssLen == 4
MaxRows == 2
MaxUnits == 2
MaxSevKids == 2
MaxFieldKids == 2
MaxVulns == 3

-----------------------------------------------------------------------------
(* Text *)

SeqsUpTo(S, n) == UNION {[1..k -> S] : k \in 0..n}

Ret(v) == [exc |-> "none", val |-> v]
Raise(e) == [exc |-> e, val |-> <<>>]

IsSpace(c) == c = " "

RECURSIVE lstrip(_)
lstrip(s) == IF s # <<>> /\ IsSpace(Head(s)) THEN lstrip(Tail(s)) ELSE s

RECURSIVE rstrip(_)
rstrip(s) ==
    IF s # <<>> /\ IsSpace(s[Len(s)]) THEN rstrip(SubSeq(s, 1, Len(s) - 1)) ELSE s

\* str.strip(): the text without its leading and trailing whitespace
strip(s) == rstrip(lstrip(s))

Digits == {"0", "1", "2", "3", "4", "5", "6", "7", "8", "9"}

DigitVal(c) ==
    CASE c = "0" -> 0 [] c = "1" -> 1 [] c = "2" -> 2 [] c = "3" -> 3
      [] c = "4" -> 4 [] c = "5" -> 5 [] c = "6" -> 6 [] c = "7" -> 7
      [] c = "8" -> 8 [] c = "9" -> 9

AllDigits(s) == \A i \in 1..Len(s) : s[i] \in Digits

RECURSIVE DecVal(_)
DecVal(s) == IF s = <<>> THEN 0 ELSE 10 * DecVal(SubSeq(s, 1, Len(s) - 1)) + DigitVal(s[Len(s)])

RECURSIVE Pow10(_)
Pow10(k) == IF k = 0 THEN 1 ELSE 10 * Pow10(k - 1)

HasSign(s) == s # <<>> /\ Head(s) \in {"-", "+"}
Unsigned(s) == IF HasSign(s) THEN Tail(s) ELSE s
IsNeg(s) == s # <<>> /\ Head(s) = "-"

\* int(text): whitespace stripped, an optional sign, then one or more digits
\* (the texts of the model hold no "_" and no non-ASCII digit); ValueError otherwise.
int(s) ==
    LET t == strip(s)
        d == Unsigned(t)
    IN  IF d # <<>> /\ AllDigits(d)
        THEN Ret(IF IsNeg(t) THEN 0 - DecVal(d) ELSE DecVal(d))
        ELSE Raise("ValueError")

DotAt(s) == {i \in 1..Len(s) : s[i] = "."}

\* float(text) on the decimal texts of the model (no exponent, "inf", "nan" or "_"
\* can be spelt with their characters): whitespace stripped, an optional sign,
\* digits with at most one "." and at least one digit.  The value is
\* num / 10^scale, exactly (a double holds these few digits without the
\* comparison with 7.0 or 4.0 changing).
float(s) ==
    LET t == strip(s)
        d == Unsigned(t)
        dots == DotAt(d)
    IN  IF dots = {}
        THEN IF d # <<>> /\ AllDigits(d)
             THEN Ret([num |-> IF IsNeg(t) THEN 0 - DecVal(d) ELSE DecVal(d), scale |-> 0])
             ELSE Raise("ValueError")
        ELSE LET p == CHOOSE i \in dots : \A j \in dots : i <= j
                 ip == SubSeq(d, 1, p - 1)
                 fp == SubSeq(d, p + 1, Len(d))
             IN  IF AllDigits(ip) /\ AllDigits(fp) /\ Len(ip) + Len(fp) > 0
                 THEN Ret([num |-> IF IsNeg(t) THEN 0 - DecVal(ip \o fp) ELSE DecVal(ip \o fp),
                           scale |-> Len(fp)])
                 ELSE Raise("ValueError")

\* cv >= k for a float value and an integer k
FloatGE(cv, k) == cv.num >= k * Pow10(cv.scale)
FloatGT(cv, k) == cv.num > k * Pow10(cv.scale)

-----------------------------------------------------------------------------
(* cvss_to_likelihood *)

\* the thresholds taken as exclusive lower bounds
cvss_to_likelihood_exclusive(cvss) ==
    LET r == float(cvss)
    IN  IF r.exc # "none" THEN Ret(1)
        ELSE IF FloatGT(r.val, 7) THEN Ret(5)
        ELSE IF FloatGT(r.val, 4) THEN Ret(3)
        ELSE Ret(1)

cvss_to_likelihood(cvss) ==
    LET r == float(cvss)
    IN  IF r.exc # "none" THEN Ret(1)
        ELSE IF FloatGE(r.val, 7) THEN Ret(5)
        ELSE IF FloatGE(r.val, 4) THEN Ret(3)
        ELSE IF FloatGT(r.val, 0) THEN Ret(1)
        ELSE Ret(1)

CvssChars == {"0", "3", "4", "6", "7", "9", ".", "-", " ", "x"}
CvssTexts == SeqsUpTo(CvssChars, MaxCvssLen)

-----------------------------------------------------------------------------
(* load_assets *)

\* A field of a row as csv.DictReader yields it: a text, or None (none = TRUE)
\* for a column the row is too short to fill.  A row is a function from the
\* header's column names to fields.
Txt(s) == [none |-> FALSE, text |-> s]
NoneField == [none |-> TRUE, text |-> <<>>]

\* row.get(key, default)
get(row, key, default) == IF key \in DOMAIN row THEN row[key] ELSE Txt(default)

\* field.strip(): AttributeError on None
strip_field(f) == IF f.none THEN Raise("AttributeError") ELSE Ret(strip(f.text))

EmptyDict == <<>>

\* an insertion that keeps the record a key already has
dict_put_first(d, k, v) ==
    [x \in DOMAIN d \cup {k} |-> IF x \in DOMAIN d THEN d[x] ELSE v]

\* assets[ip] = record: the last assignment to a key wins
dict_put(d, k, v) ==
    [x \in DOMAIN d \cup {k} |-> IF x = k THEN v ELSE d[x]]

\* a criticality that falls back to 1 on a text int() rejects
criticality_default(row) ==
    LET s == strip_field(get(row, "asset_criticality", <<"1">>))
    IN  IF s.exc # "none" THEN s
        ELSE IF s.val = <<>> THEN Ret(1)
        ELSE IF int(s.val).exc # "none" THEN Ret(1)
        ELSE int(s.val)

\* int(row.get("asset_criticality", "1").strip() or 1)
criticality(row) ==
    LET s == strip_field(get(row, "asset_criticality", <<"1">>))
    IN  IF s.exc # "none" THEN s
        ELSE IF s.val = <<>> THEN Ret(1)
        ELSE int(s.val)

\* The body of the loop over the rows, from the first of `rows` on, with the
\* mapping built so far; an exception other than FileNotFoundError leaves it.
RECURSIVE load_rows(_, _)
load_rows(rows, acc) ==
    IF rows = <<>> THEN Ret(acc)
    ELSE LET row == Head(rows)
             ip == strip_field(get(row, "ip_address", <<>>))
             name == strip_field(get(row, "asset_name", <<>>))
             owner == strip_field(get(row, "asset_owner", <<>>))
             crit == criticality(row)
         IN  IF ip.exc # "none" THEN Raise(ip.exc)
             ELSE IF ip.val = <<>> THEN load_rows(Tail(rows), acc)
             ELSE IF name.exc # "none" THEN Raise(name.exc)
             ELSE IF owner.exc # "none" THEN Raise(owner.exc)
             ELSE IF crit.exc # "none" THEN Raise(crit.exc)
             ELSE load_rows(Tail(rows),
                            dict_put(acc, ip.val,
                                     [asset_name |-> name.val,
                                      asset_owner |-> owner.val,
                                      criticality |-> crit.val]))

\* a loader that takes a missing file for an empty one
load_assets_lenient(file) ==
    IF ~file.exists THEN Ret(EmptyDict) ELSE load_rows(file.rows, EmptyDict)

\* load_assets(path): the mapping, or SystemExit after the "[ERROR] assets file
\* not found" message when the file is missing, or the exception of a row.
load_assets(file) ==
    IF ~file.exists THEN Raise("SystemExit") ELSE load_rows(file.rows, EmptyDict)

-----------------------------------------------------------------------------
(* xml.etree.ElementTree *)

\* An element is [tag, text, children]; a tag is <<namespace, local name>>, the
\* namespace "" for an unqualified tag.
NS == "http://www.greenbone.net/schema/report/2.0"
GB(local) == <<NS, local>>
UQ(local) == <<"", local>>

Elem(tag, text, children) == [tag |-> tag, text |-> text, children |-> children]

\* Element.iter(): the element and its descendants in document order
RECURSIVE iter(_)
RECURSIVE iter_each(_)
iter(e) == <<e>> \o iter_each(e.children)
iter_each(es) == IF es = <<>> THEN <<>> ELSE iter(Head(es)) \o iter_each(Tail(es))

\* e.findall('.//tag'): the descendants of e with that tag (e itself is not
\* among them), in document order
findall_deep(e, tag) == SelectSeq(Tail(iter(e)), LAMBDA x : x.tag = tag)

\* e.find('.//tag'): the first of them, or None; only the node's text is used
find_deep(e, tag) ==
    LET m == findall_deep(e, tag)
    IN  IF m = <<>> THEN NoneField ELSE Txt(m[1].text)

\* e.findtext('.//tag'): the text of the first of them ("" for a node without
\* text), None when there is none; both are the empty text here
findtext_deep(e, tag) == find_deep(e, tag).text

\* e.findtext('tag'): the same among the children of e
findtext(e, tag) ==
    LET m == SelectSeq(e.children, LAMBDA x : x.tag = tag)
    IN  IF m = <<>> THEN <<>> ELSE m[1].text

\* a or b, on texts
Or(a, b) == IF a # <<>> THEN a ELSE b

UnknownVulnerability ==
    <<"U", "n", "k", "n", "o", "w", "n", " ",
      "V", "u", "l", "n", "e", "r", "a", "b", "i", "l", "i", "t", "y">>
ZeroScore == <<"0", ".", "0">>

-----------------------------------------------------------------------------
(* parse_gvm_xml *)

\* lines 77-90: the severity text of a result unit before line 98 stores it
cvss_of(r) ==
    LET n1 == find_deep(r, GB("cvss_base"))
        cvss_node == IF n1.none THEN find_deep(r, UQ("cvss_base")) ELSE n1
        cvss_node2 == find_deep(r, GB("cvss"))
        cvss == IF ~cvss_node.none /\ cvss_node.text # <<>>
                THEN strip(cvss_node.text)
                ELSE IF ~cvss_node2.none /\ cvss_node2.text # <<>>
                     THEN strip(cvss_node2.text)
                     ELSE <<>>
    IN  IF cvss = <<>>
        THEN Or(findtext_deep(r, UQ("cvss_base")),
                Or(findtext_deep(r, UQ("cvss")), ZeroScore))
        ELSE cvss

\* lines 70-100: the observation of one result unit
parse_result(r) ==
    LET name == Or(findtext(r, GB("name")),
                   Or(findtext(r, UQ("name")),
                      Or(findtext_deep(r, UQ("name")), UnknownVulnerability)))
        host == Or(findtext(r, GB("host")),
                   Or(findtext(r, UQ("host")), findtext_deep(r, UQ("host"))))
        desc == Or(findtext(r, GB("description")),
                   Or(findtext(r, UQ("description")), <<>>))
    IN  [host |-> strip(Or(host, <<>>)),
         name |-> strip(name),
         cvss |-> strip(Or(cvss_of(r), ZeroScore)),
         description |-> strip(Or(desc, <<>>))]

\* lines 63-66: the result units of the document
result_units(root) ==
    LET results == findall_deep(root, GB("result"))
    IN  IF results = <<>> THEN findall_deep(root, UQ("result")) ELSE results

\* parse_gvm_xml(path): the observations, or SystemExit after the "[ERROR] GVM
\* XML file not found" message, or ET.parse's ParseError on a file that is not
\* well-formed XML.
parse_gvm_xml(file) ==
    IF ~file.exists THEN Raise("SystemExit")
    ELSE IF ~file.wellFormed THEN Raise("ParseError")
    ELSE LET results == result_units(file.root)
         IN  Ret([i \in 1..Len(results) |-> parse_result(results[i])])

-----------------------------------------------------------------------------
(* build_risk_register *)

Reverse(s) == [i \in 1..Len(s) |-> s[Len(s) + 1 - i]]

\* One step of the stable ascending sort: x goes after every element whose key
\* is not greater than its own.
RECURSIVE insert_by_score(_, _)
insert_by_score(sorted, x) ==
    IF sorted = <<>> THEN <<x>>
    ELSE IF Head(sorted).risk_score <= x.risk_score
         THEN <<Head(sorted)>> \o insert_by_score(Tail(sorted), x)
         ELSE <<x>> \o sorted

RECURSIVE sort_ascending(_)
sort_ascending(s) ==
    IF s = <<>> THEN <<>>
    ELSE insert_by_score(sort_ascending(SubSeq(s, 1, Len(s) - 1)), s[Len(s)])

\* an ascending sort reversed afterwards: entries of equal keys change places
sort_then_reverse(entries) == Reverse(sort_ascending(entries))

\* entries.sort(key=lambda x: x['risk_score'], reverse=True): list.sort reverses
\* the list, sorts it stably in ascending key order and reverses the result, so
\* that entries with equal keys keep their order.
sort_descending(entries) == Reverse(sort_ascending(Reverse(entries)))

\* an entry scored impact + likelihood
risk_entry_sum(asset, v) ==
    LET impact == asset.criticality
        likelihood == cvss_to_likelihood(v.cvss).val
    IN  [asset_name |-> asset.asset_name,
         ip_address |-> v.host,
         vulnerability_name |-> v.name,
         cvss_score |-> v.cvss,
         impact |-> impact,
         likelihood |-> likelihood,
         risk_score |-> impact + likelihood,
         description |-> v.description]

\* lines 109-123: the entry of an observation whose host is a known asset
risk_entry(asset, v) ==
    LET impact == asset.criticality
        likelihood == cvss_to_likelihood(v.cvss).val
    IN  [asset_name |-> asset.asset_name,
         ip_address |-> v.host,
         vulnerability_name |-> v.name,
         cvss_score |-> v.cvss,
         impact |-> impact,
         likelihood |-> likelihood,
         risk_score |-> impact * likelihood,
         description |-> v.description]

\* lines 105-108: whether the loop skips the observation
skips(d, v) == v.host = <<>> \/ v.host \notin DOMAIN d

\* a loop that stops at the first observation it skips
RECURSIVE collect_entries_until_skip(_, _)
collect_entries_until_skip(d, vs) ==
    IF vs = <<>> THEN <<>>
    ELSE IF skips(d, Head(vs)) THEN <<>>
    ELSE <<risk_entry(d[Head(vs).host], Head(vs))>> \o collect_entries_until_skip(d, Tail(vs))

\* lines 104-123: the entries in the order of the observations
RECURSIVE collect_entries(_, _)
collect_entries(d, vs) ==
    IF vs = <<>> THEN <<>>
    ELSE IF skips(d, Head(vs)) THEN collect_entries(d, Tail(vs))
    ELSE <<risk_entry(d[Head(vs).host], Head(vs))>> \o collect_entries(d, Tail(vs))

build_risk_register(d, vs) == sort_descending(collect_entries(d, vs))

-----------------------------------------------------------------------------
(* write_csv *)

Fields == <<"asset_name", "ip_address", "vulnerability_name", "cvss_score",
            "impact", "likelihood", "risk_score", "description">>

NoOutput == [written |-> FALSE, header |-> <<>>, rows |-> <<>>]

\* write_csv(path, entries): the header row, then one row per entry in order
write_csv(entries) == [written |-> TRUE, header |-> Fields, rows |-> entries]

-----------------------------------------------------------------------------
(* main *)

Msg(m, n) == [msg |-> m, n |-> n]

\* an exception main does not catch ends the process with a traceback and
\* status 1; sys.exit(1) ends it with status 1 after the printed message
Abort(r, notFound) ==
    /\ pc' = "exited"
    /\ exitCode' = 1
    /\ diag' = Append(diag, IF r.exc = "SystemExit" THEN Msg(notFound, 0)
                            ELSE Msg(r.exc, 0))

\* line 137-138
LoadAssets ==
    /\ pc = "load_assets"
    /\ calls' = Append(calls, "load_assets")
    /\ LET r == load_assets(assetsFile)
       IN  IF r.exc = "none"
           THEN /\ assets' = r.val
                /\ diag' = Append(diag, Msg("[INFO] Loaded assets", Cardinality(DOMAIN r.val)))
                /\ pc' = "parse_gvm_xml"
                /\ UNCHANGED exitCode
           ELSE /\ Abort(r, "[ERROR] assets file not found")
                /\ UNCHANGED assets
    /\ UNCHANGED <<assetsFile, xmlFile, vulns, register, output, cvssArg, cvssRet>>

\* line 139-140
ParseReport ==
    /\ pc = "parse_gvm_xml"
    /\ calls' = Append(calls, "parse_gvm_xml")
    /\ LET r == parse_gvm_xml(xmlFile)
       IN  IF r.exc = "none"
           THEN /\ vulns' = r.val
                /\ diag' = Append(diag, Msg("[INFO] Parsed vulnerability results", Len(r.val)))
                /\ pc' = "build_risk_register"
                /\ UNCHANGED exitCode
           ELSE /\ Abort(r, "[ERROR] GVM XML file not found")
                /\ UNCHANGED vulns
    /\ UNCHANGED <<assetsFile, xmlFile, assets, register, output, cvssArg, cvssRet>>

\* line 141
BuildRegister ==
    /\ pc = "build_risk_register"
    /\ calls' = Append(calls, "build_risk_register")
    /\ register' = build_risk_register(assets, vulns)
    /\ pc' = "write_csv"
    /\ UNCHANGED <<assetsFile, xmlFile, assets, vulns, output, exitCode, diag,
                   cvssArg, cvssRet>>

\* line 142, and the end of the process
WriteOutput ==
    /\ pc = "write_csv"
    /\ calls' = Append(calls, "write_csv")
    /\ output' = write_csv(register)
    /\ diag' = Append(diag, Msg("[OK] Wrote entries", Len(register)))
    /\ pc' = "done"
    /\ exitCode' = 0
    /\ UNCHANGED <<assetsFile, xmlFile, assets, vulns, register, cvssArg, cvssRet>>

Next == LoadAssets \/ ParseReport \/ BuildRegister \/ WriteOutput

\* the state of a run of main before its first statement, on the two input files
Start(af, xf) ==
    /\ pc = "load_assets"
    /\ assetsFile = af
    /\ xmlFile = xf
    /\ assets = <<>>
    /\ vulns = <<>>
    /\ register = <<>>
    /\ output = NoOutput
    /\ exitCode = -1
    /\ diag = <<>>
    /\ calls = <<>>
    /\ cvssArg = <<>>
    /\ cvssRet = Ret(0)

-----------------------------------------------------------------------------
(* a direct call of cvss_to_likelihood *)

CallCvss ==
    /\ pc = "cvss_to_likelihood"
    /\ cvssRet' = cvss_to_likelihood(cvssArg)
    /\ pc' = "returned"
    /\ UNCHANGED <<assetsFile, xmlFile, assets, vulns, register, output, exitCode,
                   diag, calls, cvssArg>>

-----------------------------------------------------------------------------
(* The input files of the runs checked *)

MissingAssets == [exists |-> FALSE, rows |-> <<>>]
AssetsOf(rows) == [exists |-> TRUE, rows |-> rows]

MissingXml == [exists |-> FALSE, wellFormed |-> FALSE, root |-> <<>>]
MalformedXml == [exists |-> TRUE, wellFormed |-> FALSE, root |-> <<>>]
XmlOf(root) == [exists |-> TRUE, wellFormed |-> TRUE, root |-> root]

\* rows of assets.csv under the header ip_address,asset_name,asset_owner,
\* asset_criticality; a None criticality is a row one field short
IpTexts == {<<"a">>, <<" ", "a", " ">>, <<"b">>, <<" ">>}
NameOwners == {<<<<"n", "1">>, <<"o", "1">>>>, <<<<" ", "n", "2">>, <<"o", "2", " ">>>>}
CritFields ==
    {Txt(<<>>), Txt(<<" ", "2", " ">>), Txt(<<"0">>), Txt(<<"-", "1">>), Txt(<<"x">>),
     NoneField}

AssetRows ==
    {[ip_address |-> Txt(ip), asset_name |-> Txt(no[1]), asset_owner |-> Txt(no[2]),
      asset_criticality |-> c] : ip \in IpTexts, no \in NameOwners, c \in CritFields}

\* rows under a header without the asset_criticality column
ShortHeaderRows ==
    {[ip_address |-> Txt(ip), asset_name |-> Txt(no[1]), asset_owner |-> Txt(no[2])] :
        ip \in IpTexts, no \in NameOwners}

LoadFiles ==
    {MissingAssets}
        \cup {AssetsOf(rs) : rs \in SeqsUpTo(AssetRows, MaxRows)}
        \cup {AssetsOf(rs) : rs \in SeqsUpTo(ShortHeaderRows, MaxRows)}

AssetRow(ip, name, owner, crit) ==
    [ip_address |-> Txt(ip), asset_name |-> Txt(name), asset_owner |-> Txt(owner),
     asset_criticality |-> Txt(crit)]

\* a:3 and b:5, so that 7.5 on a and 4.0 on b tie at 15
TwoAssets ==
    AssetsOf(<<AssetRow(<<"a">>, <<"n", "1">>, <<"o", "1">>, <<"3">>),
               AssetRow(<<"b">>, <<"n", "2">>, <<"o", "2">>, <<"5">>)>>)

Leaf(tag, text) == Elem(tag, text, <<>>)
Report(children) == Elem(UQ("report"), <<>>, children)

\* result units with an unqualified host and cvss_base, for the register
HostTexts == {<<"a">>, <<"b">>, <<"c">>, <<>>}
ScoreTexts == {<<"7", ".", "5">>, <<"4", ".", "0">>, <<"x">>}
ScoredUnit(h, c) ==
    Elem(UQ("result"), <<>>,
         (IF h = <<>> THEN <<>> ELSE <<Leaf(UQ("host"), h)>>)
            \o <<Leaf(UQ("cvss_base"), c)>>)
ScoredUnits == {ScoredUnit(h, c) : h \in HostTexts, c \in ScoreTexts}
BuildDocs == {XmlOf(Report(us)) : us \in SeqsUpTo(ScoredUnits, MaxVulns)}

\* documents that differ in where their result units are
Unit(ns, h) == Elem(<<ns, "result">>, <<>>, <<Leaf(UQ("host"), h)>>)
PlainUnits == {Unit(ns, h) : ns \in {NS, ""}, h \in {<<"a">>, <<"b">>}}
StructItems ==
    PlainUnits
        \cup {Elem(UQ("results"), <<" ">>, <<u>>) : u \in PlainUnits}
        \cup {Elem(<<ns, "result">>, <<>>, <<Leaf(UQ("host"), <<"c">>), u>>) :
                ns \in {NS, ""}, u \in PlainUnits}
        \cup {Leaf(UQ("task"), <<"t">>)}
RootTags == {UQ("report"), GB("report"), UQ("result"), GB("result")}
StructDocs ==
    {XmlOf(Elem(t, <<>>, items)) : t \in RootTags, items \in SeqsUpTo(StructItems, MaxUnits)}

\* documents of one result unit that differ in its severity sources
SevTags == {GB("cvss_base"), UQ("cvss_base"), GB("cvss"), UQ("cvss")}
SevDigit(tag) ==
    CASE tag = GB("cvss_base") -> "1" [] tag = UQ("cvss_base") -> "2"
      [] tag = GB("cvss") -> "3" [] tag = UQ("cvss") -> "4"
SevPool ==
    UNION {{Leaf(t, <<>>), Leaf(t, <<" ">>), Leaf(t, <<" ", SevDigit(t)>>)} : t \in SevTags}
SeverityDocs ==
    {XmlOf(Report(<<Elem(UQ("result"), <<>>, <<Leaf(UQ("host"), <<"a">>)>> \o kids)>>)) :
        kids \in SeqsUpTo(SevPool, MaxSevKids)}
        \cup {XmlOf(Report(<<Elem(UQ("result"), <<>>,
                                  <<Leaf(UQ("host"), <<"a">>),
                                    Elem(UQ("nvt"), <<" ">>, kids)>>)>>)) :
                kids \in SeqsUpTo(SevPool, MaxSevKids)}

\* documents of one result unit that differ in its name, host and description
FieldPool ==
    {Leaf(GB("host"), <<"a">>), Leaf(UQ("host"), <<" ", "b", " ">>), Leaf(UQ("host"), <<>>),
     Elem(UQ("detail"), <<>>, <<Leaf(UQ("host"), <<"a">>), Leaf(UQ("name"), <<"d", "n">>)>>),
     Leaf(GB("name"), <<"g", "n">>), Leaf(UQ("name"), <<" ", "u", "n">>),
     Leaf(GB("description"), <<"g", "d">>), Leaf(UQ("description"), <<"u", "d", " ">>)}
FieldDocs ==
    {XmlOf(Report(<<Elem(GB("result"), <<>>, kids)>>)) :
        kids \in SeqsUpTo(FieldPool, MaxFieldKids)}

ParseDocs == StructDocs \cup SeverityDocs \cup FieldDocs

\* a report with two findings on a and one on an unknown host
SmallReport ==
    XmlOf(Report(<<ScoredUnit(<<"a">>, <<"7", ".", "5">>),
                   ScoredUnit(<<"c">>, <<"7", ".", "5">>),
                   ScoredUnit(<<"b">>, <<"x">>)>>))

-----------------------------------------------------------------------------
(* Specifications *)

\* a run of main on any small asset file and any small report, either of them
\* possibly missing
MainRows ==
    {AssetRow(<<"a">>, <<"n", "1">>, <<"o", "1">>, c) : c \in {<<"3">>, <<"x">>, <<>>}}
        \cup {AssetRow(<<"b">>, <<"n", "2">>, <<"o", "2">>, <<"5">>)}
MainUnits == {ScoredUnit(<<"a">>, <<"7", ".", "5">>), ScoredUnit(<<"c">>, <<"x">>)}
Init ==
    \E af \in {MissingAssets} \cup {AssetsOf(rs) : rs \in SeqsUpTo(MainRows, MaxRows)},
       xf \in {MissingXml, MalformedXml, SmallReport}
                \cup {XmlOf(Report(us)) : us \in SeqsUpTo(MainUnits, MaxUnits)} :
        Start(af, xf)

Spec == Init /\ [][Next]_vars

\* runs that differ in assets.csv
InitLoad == \E af \in LoadFiles : Start(af, SmallReport)
SpecLoad == InitLoad /\ [][Next]_vars

\* runs that differ in gvm_report.xml
InitParse == \E xf \in ParseDocs : Start(TwoAssets, xf)
SpecParse == InitParse /\ [][Next]_vars

\* runs that differ in the observations joined with the assets a and b
InitBuild == \E xf \in BuildDocs : Start(TwoAssets, xf)
SpecBuild == InitBuild /\ [][Next]_vars

\* direct calls of cvss_to_likelihood
InitCvss ==
    /\ pc = "cvss_to_likelihood"
    /\ cvssArg \in CvssTexts
    /\ cvssRet = Ret(0)
    /\ assetsFile = MissingAssets
    /\ xmlFile = MissingXml
    /\ assets = <<>>
    /\ vulns = <<>>
    /\ register = <<>>
    /\ output = NoOutput
    /\ exitCode = -1
    /\ diag = <<>>
    /\ calls = <<>>
SpecCvss == InitCvss /\ [][CallCvss]_vars

-----------------------------------------------------------------------------
(* Properties of cvss_to_likelihood, under SpecCvss *)

Returned == pc = "returned"

\* C4: cvss_to_likelihood never raises and returns 5 for a text that parses to
\* a number >= 7.0, 3 for one that parses to a number in [4.0, 7.0), and 1 for
\* one that parses to a smaller number or does not parse; "7.0", "6.99", "3.99",
\* "0", "-7" and "x" land where the thresholds put them.
LikelihoodByThreshold ==
    Returned =>
        /\ cvssRet.exc = "none"
        /\ cvssRet.val \in {1, 3, 5}
        /\ LET f == float(cvssArg)
           IN  /\ cvssRet.val = 5 <=> (f.exc = "none" /\ f.val.num >= 7 * Pow10(f.val.scale))
               /\ cvssRet.val = 3 <=> (/\ f.exc = "none"
                                       /\ f.val.num >= 4 * Pow10(f.val.scale)
                                       /\ f.val.num < 7 * Pow10(f.val.scale))
        /\ (cvssArg = <<"7", ".", "0">> => cvssRet.val = 5)
        /\ (cvssArg = <<"6", ".", "9", "9">> => cvssRet.val = 3)
        /\ (cvssArg = <<"4">> => cvssRet.val = 3)
        /\ (cvssArg = <<"3", ".", "9", "9">> => cvssRet.val = 1)
        /\ (cvssArg \in {<<"0">>, <<"-", "7">>, <<"x">>, <<>>, <<"7", " ", "0">>}
                => cvssRet.val = 1)

SevenPointZeroIsHigh ==
    Returned /\ cvssArg = <<"7", ".", "0">> /\ cvssRet = Ret(5)

-----------------------------------------------------------------------------
(* Properties of build_risk_register, under SpecBuild *)

Built == pc \in {"write_csv", "done"}

Matches(v) == v.host # <<>> /\ v.host \in DOMAIN assets
MatchedIdx == {i \in 1..Len(vulns) : Matches(vulns[i])}

\* the entry carries the observation's host, title, severity text and summary
EntryOf(e, v) ==
    /\ e.ip_address = v.host
    /\ e.vulnerability_name = v.name
    /\ e.cvss_score = v.cvss
    /\ e.description = v.description

Injective(f) == \A x, y \in DOMAIN f : f[x] = f[y] => x = y

\* C1: the register holds exactly one entry for each observation whose host is
\* non-empty and a key of the asset mapping, and none for any other
\* observation; its length is the number of matching observations.
OneEntryPerMatch ==
    Built =>
        /\ Len(register) = Cardinality(MatchedIdx)
        /\ \E f \in [1..Len(register) -> MatchedIdx] :
              /\ Injective(f)
              /\ \A p \in 1..Len(register) : EntryOf(register[p], vulns[f[p]])
        /\ \A p \in 1..Len(register) :
              register[p].ip_address # <<>> /\ register[p].ip_address \in DOMAIN assets

UnmatchedDropped ==
    /\ pc = "done"
    /\ Len(vulns) = 3
    /\ Len(register) = 1
    /\ \E i, j \in 1..3 : vulns[i].host = <<>> /\ vulns[j].host = <<"c">>

\* C2: every entry has risk_score = impact * likelihood, its impact the
\* criticality of the asset under its ip_address and its likelihood
\* cvss_to_likelihood of its cvss_score text.
ScoreIsImpactTimesLikelihood ==
    Built =>
        \A p \in 1..Len(register) :
            LET e == register[p]
            IN  /\ e.ip_address \in DOMAIN assets
                /\ e.impact = assets[e.ip_address].criticality
                /\ e.likelihood = cvss_to_likelihood(e.cvss_score).val
                /\ e.risk_score = e.impact * e.likelihood

HighOnCriticalityThree ==
    /\ Built
    /\ \E p \in 1..Len(register) :
          /\ register[p].ip_address = <<"a">>
          /\ register[p].cvss_score = <<"7", ".", "5">>
          /\ register[p].impact = 3
          /\ register[p].likelihood = 5
          /\ register[p].risk_score = 15

\* C3: the register is the matched observations in descending risk_score order,
\* observations of equal risk_score in their order in the input sequence.
StableDescendingOrder ==
    Built =>
        \E f \in [1..Len(register) -> MatchedIdx] :
            /\ Injective(f)
            /\ Cardinality(MatchedIdx) = Len(register)
            /\ \A p \in 1..Len(register) : EntryOf(register[p], vulns[f[p]])
            /\ \A i, j \in 1..Len(register) :
                  i < j =>
                      \/ register[i].risk_score > register[j].risk_score
                      \/ /\ register[i].risk_score = register[j].risk_score
                         /\ f[i] < f[j]

TieKeptInDocumentOrder ==
    /\ Built
    /\ Len(register) = 3
    /\ register[1].risk_score = register[2].risk_score
    /\ register[1].ip_address # register[2].ip_address
    /\ register[2].risk_score > register[3].risk_score
    /\ vulns[1].host = register[3].ip_address
    /\ vulns[1].cvss = register[3].cvss_score

-----------------------------------------------------------------------------
(* Properties of main, under Spec *)

StageOrder == <<"load_assets", "parse_gvm_xml", "build_risk_register", "write_csv">>

AssetsMissingMsg == Msg("[ERROR] assets file not found", 0)
XmlMissingMsg == Msg("[ERROR] GVM XML file not found", 0)

\* C5: main calls load_assets, parse_gvm_xml, build_risk_register and write_csv
\* in that order; the output is written only after load_assets and
\* parse_gvm_xml have returned; a missing asset file ends the run with the
\* message and a non-zero status before the report is parsed, a missing report
\* ends it with the message and a non-zero status before the register is
\* built, and neither run writes the output.
StagesInOrderAbortOnMissingInput ==
    /\ Len(calls) <= 4
    /\ \A i \in 1..Len(calls) : calls[i] = StageOrder[i]
    /\ output.written =>
          /\ calls = StageOrder
          /\ assetsFile.exists /\ xmlFile.exists
          /\ Len(diag) >= 2
          /\ diag[1].msg = "[INFO] Loaded assets"
          /\ diag[2].msg = "[INFO] Parsed vulnerability results"
    /\ (~assetsFile.exists /\ pc # "load_assets") =>
          /\ pc = "exited"
          /\ exitCode > 0
          /\ diag = <<AssetsMissingMsg>>
          /\ calls = <<"load_assets">>
          /\ ~output.written
    /\ (assetsFile.exists /\ ~xmlFile.exists /\ pc \notin {"load_assets", "parse_gvm_xml"}) =>
          /\ pc = "exited"
          /\ exitCode > 0
          /\ diag[Len(diag)] \in {XmlMissingMsg, Msg("ValueError", 0), Msg("AttributeError", 0)}
          /\ (Len(calls) = 2 => diag[Len(diag)] = XmlMissingMsg)
          /\ Len(calls) <= 2
          /\ ~output.written
    /\ pc = "exited" => ~output.written /\ exitCode > 0
    /\ pc = "done" => output.written /\ exitCode = 0

ReportMissingAfterLoad ==
    /\ pc = "exited"
    /\ assetsFile.exists
    /\ ~xmlFile.exists
    /\ calls = <<"load_assets", "parse_gvm_xml">>
    /\ diag[2] = XmlMissingMsg

-----------------------------------------------------------------------------
(* Properties of load_assets, under SpecLoad *)

Loaded == Len(diag) >= 1 /\ diag[1].msg = "[INFO] Loaded assets"

RowIp(r) == strip(r.ip_address.text)

\* the rows of the file whose trimmed address is k
RowsOf(k) == {i \in 1..Len(assetsFile.rows) : RowIp(assetsFile.rows[i]) = k}
LastRowOf(k) == CHOOSE i \in RowsOf(k) : \A j \in RowsOf(k) : j <= i

\* the integer a criticality text spells: 1 when the column is missing or the
\* text blank
CritValue(r) ==
    IF "asset_criticality" \notin DOMAIN r THEN 1
    ELSE IF strip(r.asset_criticality.text) = <<>> THEN 1
    ELSE int(r.asset_criticality.text).val

\* C6: the mapping load_assets returns has exactly one entry per distinct
\* non-blank trimmed address of the rows, none for a blank address, and the
\* entry of an address holds the name, owner and criticality of its last row.
OneEntryPerAddressLastWins ==
    Loaded =>
        /\ DOMAIN assets =
              {RowIp(assetsFile.rows[i]) : i \in 1..Len(assetsFile.rows)} \ {<<>>}
        /\ \A k \in DOMAIN assets :
              LET r == assetsFile.rows[LastRowOf(k)]
              IN  /\ assets[k].asset_name = strip(r.asset_name.text)
                  /\ assets[k].asset_owner = strip(r.asset_owner.text)
                  /\ assets[k].criticality = CritValue(r)

DuplicateAddressOverwritten ==
    /\ Loaded
    /\ Len(assetsFile.rows) = 2
    /\ assetsFile.rows[1].ip_address.text = <<" ", "a", " ">>
    /\ assetsFile.rows[2].ip_address.text = <<"a">>
    /\ assetsFile.rows[1].asset_name.text = <<"n", "1">>
    /\ DOMAIN assets = {<<"a">>}
    /\ assets[<<"a">>].asset_name = <<"n", "2">>
    /\ assets[<<"a">>].asset_owner = <<"o", "2">>

\* a criticality that is present, not blank and not an integer literal
IsIntLiteral(t) ==
    LET d == Unsigned(strip(t)) IN d # <<>> /\ \A i \in 1..Len(d) : d[i] \in Digits
Malformed(r) ==
    /\ RowIp(r) # <<>>
    /\ "asset_criticality" \in DOMAIN r
    /\ ~r.asset_criticality.none
    /\ strip(r.asset_criticality.text) # <<>>
    /\ ~IsIntLiteral(r.asset_criticality.text)
Blank(r) ==
    /\ "asset_criticality" \in DOMAIN r
    /\ ~r.asset_criticality.none
    /\ strip(r.asset_criticality.text) = <<>>

\* C7: when a row with a non-blank address carries a criticality that is
\* present but not an integer, load_assets raises, no mapping is returned and
\* the run ends with a non-zero status and no output; a blank criticality is
\* stored as 1.
MalformedCriticalityFails ==
    /\ (pc # "load_assets"
          /\ assetsFile.exists
          /\ \E i \in 1..Len(assetsFile.rows) : Malformed(assetsFile.rows[i])) =>
              /\ ~Loaded
              /\ pc = "exited"
              /\ exitCode > 0
              /\ diag[1].msg \in {"ValueError", "AttributeError"}
              /\ assets = <<>>
              /\ ~output.written
    /\ Loaded =>
          \A k \in DOMAIN assets :
              Blank(assetsFile.rows[LastRowOf(k)]) => assets[k].criticality = 1

MalformedCriticalityRaised ==
    /\ pc = "exited"
    /\ diag = <<Msg("ValueError", 0)>>
    /\ Len(assetsFile.rows) = 2
    /\ Blank(assetsFile.rows[1])
    /\ RowIp(assetsFile.rows[1]) = <<"a">>
    /\ Malformed(assetsFile.rows[2])

\* C10: every record of the mapping load_assets returns has a criticality >= 1,
\* and so every entry of the register has impact >= 1 and risk_score >= 1.
CriticalityAtLeastOne ==
    /\ Loaded => \A k \in DOMAIN assets : assets[k].criticality >= 1
    /\ Built => \A p \in 1..Len(register) :
                    register[p].impact >= 1 /\ register[p].risk_score >= 1

-----------------------------------------------------------------------------
(* Properties of parse_gvm_xml, under SpecParse *)

Parsed == Len(diag) >= 2 /\ diag[2].msg = "[INFO] Parsed vulnerability results"

\* every element of the document with that tag, the root among them, in
\* document order
UnitsAnywhere(tag) == SelectSeq(iter(xmlFile.root), LAMBDA x : x.tag = tag)
ExpectedUnits ==
    IF UnitsAnywhere(GB("result")) # <<>> THEN UnitsAnywhere(GB("result"))
    ELSE UnitsAnywhere(UQ("result"))

\* C8: parse_gvm_xml returns one observation per result unit, in document
\* order, of the namespaced result units found anywhere in the document, of the
\* unqualified ones if and only if there is no namespaced one, and the empty
\* list without an error when there is neither.
OneObservationPerUnitAnywhere ==
    /\ pc # "load_assets" /\ pc # "parse_gvm_xml" => Parsed
    /\ Parsed =>
          /\ Len(vulns) = Len(ExpectedUnits)
          /\ \A i \in 1..Len(vulns) : vulns[i] = parse_result(ExpectedUnits[i])

\* the same of the result units below the root element
UnitsBelowRoot(tag) == SelectSeq(Tail(iter(xmlFile.root)), LAMBDA x : x.tag = tag)
OneObservationPerUnitBelowRoot ==
    /\ pc # "load_assets" /\ pc # "parse_gvm_xml" => Parsed
    /\ Parsed =>
          LET units == IF UnitsBelowRoot(GB("result")) # <<>>
                       THEN UnitsBelowRoot(GB("result"))
                       ELSE UnitsBelowRoot(UQ("result"))
          IN  /\ Len(vulns) = Len(units)
              /\ \A i \in 1..Len(vulns) : vulns[i] = parse_result(units[i])

\* the severity sources of a unit in the priority order of the claim; a source
\* supplies a value when its element is there with a text that is not blank
Supplies(f) == ~f.none /\ strip(f.text) # <<>>
FirstSupplied(r) ==
    LET s1 == find_deep(r, GB("cvss_base"))
        s2 == find_deep(r, UQ("cvss_base"))
        s3 == find_deep(r, GB("cvss"))
        s4 == find_deep(r, UQ("cvss"))
    IN  IF Supplies(s1) THEN strip(s1.text)
        ELSE IF Supplies(s2) THEN strip(s2.text)
        ELSE IF Supplies(s3) THEN strip(s3.text)
        ELSE IF Supplies(s4) THEN strip(s4.text)
        ELSE ZeroScore

\* C9: the severity text stored for a result unit is the trimmed text of the
\* first source that supplies one, in the order namespaced cvss_base,
\* unqualified cvss_base, namespaced cvss, unqualified cvss_base or cvss, and
\* "0.0" when none does; it is never empty.
SeverityFromFirstSourceNeverEmpty ==
    Parsed =>
        \A i \in 1..Len(vulns) :
            /\ vulns[i].cvss # <<>>
            /\ vulns[i].cvss = FirstSupplied(result_units(xmlFile.root)[i])

=============================================================================
